---- MODULE Spec2Model ----
(***************************************************************************)
(* Model of the two algorithms of symphony:                                *)
(*   - analyses/generate_molecules_multifocus.py: the batched generation   *)
(*     loop (generate_molecules) and the merge of predictions into a       *)
(*     fragment (append_predictions_to_fragment)        -- specification   *)
(*     Spec;                                                               *)
(*   - symphony/data/fragments.py: the decomposition of a structure into   *)
(*     a fragment sequence (generate_fragments)         -- specification   *)
(*     SpecFrag.                                                           *)
(* Atoms lie on the integer points of one axis, so the Euclidean norm of   *)
(* the code is the absolute difference.  Python indices start at 0, the    *)
(* sequences here at 1: node index 0 of the code is index 1 here.          *)
(***************************************************************************)
EXTENDS Integers, Sequences, FiniteSets, TLC

\* ------------------------------------------------------------------ bounds
MaxSeeds == 2
MaxCoord == 3
MaxFocus == 2
MaxInitAtoms == 2

\* the species table [1, 6, 7, 8, 9] of both programs
NumSpecies == 5
n_species == 5

Coords == 0..MaxCoord
Species == 0..(NumSpecies - 1)
\* the relative positions and the species the predictor may return
Offsets == {1, 2}
TargetSpecies == {0, 4}

VARIABLES
    \* generate_molecules: arguments
    num_seeds, max_num_atoms, padding_budget, merge_cutoff, nn_cutoff,
    init_fragments,
    \* generate_molecules: locals
    fragment_pool, generated_molecules, fragments, merged, pc,
    \* append_predictions_to_fragment on its own: arguments and result
    m_fragment, m_pred, m_cutoff, m_out,
    \* generate_fragments: arguments
    graph, mode, nn_tolerance, max_radius, heavy_first, max_targets_per_graph,
    \* generate_fragments: locals, the fragments yielded so far, and for each
    \* non-final fragment the choices sampled for it
    visited_nodes, frags, steps, fpc,
    \* qm9_fragmenter.generate_all_fragments: the cutoff, what became of the
    \* molecule processed before the one at hand, the records yielded for the
    \* molecule at hand, and the generator's position
    g_nn_cutoff, previous, yielded, gpc

args == <<num_seeds, max_num_atoms, padding_budget, merge_cutoff, nn_cutoff,
          init_fragments>>
poolvars == <<args, fragment_pool, generated_molecules, fragments, merged, pc>>
mergevars == <<m_fragment, m_pred, m_cutoff, m_out>>
fargs == <<graph, mode, nn_tolerance, max_radius, heavy_first, max_targets_per_graph>>
fragvars == <<fargs, visited_nodes, frags, steps, fpc>>
genvars == <<g_nn_cutoff, previous, yielded, gpc>>

\* ------------------------------------------------------------ small helpers
Abs(x) == IF x < 0 THEN -x ELSE x

Range(s) == {s[i] : i \in 1..Len(s)}

RECURSIVE SumSeq(_)
SumSeq(s) == IF s = <<>> THEN 0 ELSE Head(s) + SumSeq(Tail(s))

RECURSIVE SortedSeq(_)
\* the elements of a finite set of integers in ascending order
SortedSeq(S) ==
    IF S = {} THEN <<>>
    ELSE LET m == CHOOSE x \in S : \A y \in S : x <= y
         IN <<m>> \o SortedSeq(S \ {m})

\* np.linalg.norm(a - b) for two atoms on the axis
norm(a, b) == Abs(a - b)

\* np.min(np.linalg.norm(new_positions - extra_position, axis=1))
MinNorm(new_positions, extra_position) ==
    CHOOSE d \in {norm(new_positions[i], extra_position) :
                     i \in 1..Len(new_positions)} :
        \A i \in 1..Len(new_positions) :
            d <= norm(new_positions[i], extra_position)

\* --------------------------------------------------- input_pipeline (graph)
\* The neighbour graph of a structure: a directed edge for every ordered pair
\* of distinct atoms closer than the cutoff, in (sender, receiver) order.
ase_atoms_to_jraph_graph(positions, species, cutoff) ==
    LET n == Len(positions)
        pairs == [k \in 1..(n * n) |-> <<((k - 1) \div n) + 1, ((k - 1) % n) + 1>>]
        near(p) == p[1] # p[2] /\ norm(positions[p[1]], positions[p[2]]) < cutoff
        kept == SelectSeq(pairs, near)
    IN [positions |-> positions,
        species |-> species,
        senders |-> [k \in 1..Len(kept) |-> kept[k][1]],
        receivers |-> [k \in 1..Len(kept) |-> kept[k][2]],
        globals |-> 0]

n_node(g) == Len(g.positions)
n_edge(g) == Len(g.senders)

\* ------------------------------------------- append_predictions_to_fragment
\* line 75, and the table models.ATOMIC_NUMBERS of line 153
atomic_numbers == <<1, 6, 7, 8, 9>>

\* atomic_numbers[new_species], line 78
numbers_of(species) == [i \in 1..Len(species) |-> atomic_numbers[species[i] + 1]]

\* species_index that counts from one
species_index_FromOne(numbers) ==
    [i \in 1..Len(numbers) |->
        Cardinality({k \in 1..Len(atomic_numbers) : atomic_numbers[k] <= numbers[i]})]

\* The species index the graph builder gives an atomic number: its place in
\* the sorted species table.
species_index(numbers) ==
    [i \in 1..Len(numbers) |->
        Cardinality({k \in 1..Len(atomic_numbers) : atomic_numbers[k] < numbers[i]})]

\* The candidates of one prediction, in node order: lines 59-62.
Extras(fragment, pred) ==
    LET focus == SortedSeq(pred.focus_mask)
    IN [k \in 1..Len(focus) |->
           [position |-> pred.position_vectors[focus[k]]
                           + fragment.positions[focus[k]],
            species |-> pred.target_species[focus[k]]]]

RECURSIVE MergeLoop_Le(_, _, _, _, _)
\* MergeLoop with `<=` in place of `<` at line 69
MergeLoop_Le(new_positions, new_species, accepted, extras, cutoff) ==
    IF extras = <<>>
    THEN [positions |-> new_positions, species |-> new_species,
          accepted |-> accepted]
    ELSE LET e == Head(extras)
         IN IF MinNorm(new_positions, e.position) <= cutoff
            THEN MergeLoop_Le(new_positions, new_species,
                              Append(accepted, FALSE), Tail(extras), cutoff)
            ELSE MergeLoop_Le(Append(new_positions, e.position),
                              Append(new_species, e.species),
                              Append(accepted, TRUE), Tail(extras), cutoff)

RECURSIVE MergeLoop(_, _, _, _, _)
\* The filter loop, lines 66-73; accepted records the branch taken for each
\* candidate.
MergeLoop(new_positions, new_species, accepted, extras, cutoff) ==
    IF extras = <<>>
    THEN [positions |-> new_positions, species |-> new_species,
          accepted |-> accepted]
    ELSE LET e == Head(extras)
         IN IF MinNorm(new_positions, e.position) < cutoff
            THEN MergeLoop(new_positions, new_species,
                           Append(accepted, FALSE), Tail(extras), cutoff)
            ELSE MergeLoop(Append(new_positions, e.position),
                           Append(new_species, e.species),
                           Append(accepted, TRUE), Tail(extras), cutoff)

\* append_predictions_to_fragment that reports stop only when no atom was added
append_predictions_to_fragment_StopIfIdle(fragment, pred, cutoff, nncut) ==
    LET loop == MergeLoop(fragment.positions, fragment.species, <<>>,
                          Extras(fragment, pred), cutoff)
        stop == pred.stop /\ Len(loop.positions) = Len(fragment.positions)
        new_fragment == [ase_atoms_to_jraph_graph(loop.positions,
                                species_index(numbers_of(loop.species)), nncut)
                            EXCEPT !.globals = fragment.globals]
    IN [stop |-> stop, new_fragment |-> new_fragment, accepted |-> loop.accepted]

append_predictions_to_fragment(fragment, pred, cutoff, nncut) ==
    LET stop == pred.stop
        loop == MergeLoop(fragment.positions, fragment.species, <<>>,
                          Extras(fragment, pred), cutoff)
        new_fragment == [ase_atoms_to_jraph_graph(loop.positions,
                                species_index(numbers_of(loop.species)), nncut)
                            EXCEPT !.globals = fragment.globals]
    IN [stop |-> stop, new_fragment |-> new_fragment, accepted |-> loop.accepted]

\* jraph.get_graph_padding_mask: the valid graphs come first in a batch
get_graph_padding_mask(batch) ==
    [k \in 1..batch.n_graph |-> k <= Len(batch.graphs)]

\* jraph.unbatch of a padded batch: the valid graphs, then the padding graphs.
\* The first padding graph holds all padding nodes and edges, the others are
\* empty; padded fields are zero, and the global 0 reads as the id of the
\* first seed, which is 1 here.
unbatch(batch) ==
    LET pad_n_node == batch.n_node - SumSeq([k \in 1..Len(batch.graphs) |->
                                               Len(batch.graphs[k].positions)])
        pad_n_edge == batch.n_edge - SumSeq([k \in 1..Len(batch.graphs) |->
                                               Len(batch.graphs[k].senders)])
        first == [positions |-> [i \in 1..pad_n_node |-> 0],
                  species |-> [i \in 1..pad_n_node |-> 0],
                  senders |-> [e \in 1..pad_n_edge |-> 1],
                  receivers |-> [e \in 1..pad_n_edge |-> 1],
                  globals |-> 1]
        empty == [positions |-> <<>>, species |-> <<>>, senders |-> <<>>,
                  receivers |-> <<>>, globals |-> 1]
    IN batch.graphs \o
           [k \in 1..(batch.n_graph - Len(batch.graphs)) |->
               IF k = 1 THEN first ELSE empty]

\* append_predictions that does not test the padding mask
append_predictions_IgnoresMask(batch, ps, cutoff, nncut) ==
    LET gs == unbatch(batch)
    IN [i \in 1..Len(gs) |->
           LET o == append_predictions_to_fragment(gs[i], ps[i], cutoff, nncut)
           IN [stop |-> o.stop, new_fragment |-> o.new_fragment,
               fragment |-> gs[i], pred_stop |-> ps[i].stop,
               slot |-> i, pred_graph |-> ps[i].graph]]

\* append_predictions, lines 44-54: the graphs and the predictions of the
\* batch are unbatched and paired by position, and each valid pair is merged.
\* fragment, pred_stop, slot and pred_graph keep what the outcome was computed
\* from.
append_predictions(batch, ps, cutoff, nncut) ==
    LET valids == get_graph_padding_mask(batch)
        gs == unbatch(batch)
        valid(k) == valids[k]
        kept == SelectSeq([k \in 1..Len(gs) |-> k], valid)
    IN [i \in 1..Len(kept) |->
           LET k == kept[i]
               o == append_predictions_to_fragment(gs[k], ps[k], cutoff, nncut)
           IN [stop |-> o.stop, new_fragment |-> o.new_fragment,
               fragment |-> gs[k], pred_stop |-> ps[k].stop,
               slot |-> k, pred_graph |-> ps[k].graph]]

\* ------------------------------------------------- jraph.dynamically_batch
\* _is_over_batch_size(element, valid_batch_size)
IsOverBatchSize(element, budget) ==
    \/ n_node(element) > budget.n_node - 1
    \/ n_edge(element) > budget.n_edge
    \/ 1 > budget.n_graph - 1

NodesOf(graphs) == SumSeq([k \in 1..Len(graphs) |-> n_node(graphs[k])])
EdgesOf(graphs) == SumSeq([k \in 1..Len(graphs) |-> n_edge(graphs[k])])

\* Fits without the check of the node axis
Fits_IgnoresNodes(acc, element, budget) ==
    ~ \/ Len(acc) + 1 > budget.n_graph - 1
      \/ EdgesOf(acc) + n_edge(element) > budget.n_edge

Fits(acc, element, budget) ==
    ~ \/ Len(acc) + 1 > budget.n_graph - 1
      \/ NodesOf(acc) + n_node(element) > budget.n_node - 1
      \/ EdgesOf(acc) + n_edge(element) > budget.n_edge

RECURSIVE BatchLoop(_, _, _, _)
\* next(jraph.dynamically_batch(_make_queue_iterator(q), **budget)): the
\* generator pulls elements off the queue until its first yield or raise.
\* pulled counts the elements taken off the queue by then.
BatchLoop(q, pulled, acc, budget) ==
    IF pulled = Len(q)
    THEN [raised |-> FALSE, graphs |-> acc, pulled |-> pulled]
    ELSE LET element == q[pulled + 1]
         IN IF IsOverBatchSize(element, budget)
            THEN [raised |-> (acc = <<>>), graphs |-> acc, pulled |-> pulled + 1]
            ELSE IF acc = <<>>
            THEN BatchLoop(q, pulled + 1, <<element>>, budget)
            ELSE IF ~Fits(acc, element, budget)
            THEN [raised |-> FALSE, graphs |-> acc, pulled |-> pulled + 1]
            ELSE BatchLoop(q, pulled + 1, Append(acc, element), budget)

\* pad_with_graphs: the yielded batch has exactly the budget's sizes.
dynamically_batch(q, budget) ==
    LET b == BatchLoop(q, 0, <<>>, budget)
    IN [raised |-> b.raised, graphs |-> b.graphs, pulled |-> b.pulled,
        n_node |-> budget.n_node, n_edge |-> budget.n_edge,
        n_graph |-> budget.n_graph]

\* ------------------------------------------------------ generate_molecules
\* The initial molecules offered to a run: up to MaxInitAtoms atoms at
\* ascending points of the axis.
InitMolecules ==
    {m \in UNION {[1..n -> 0..(MaxInitAtoms - 1)] : n \in 1..MaxInitAtoms} :
        \A i \in 1..(Len(m) - 1) : m[i] < m[i + 1]}

InitSpecies(positions) == [i \in 1..Len(positions) |-> positions[i] % NumSpecies]

\* Either one molecule shared by all seeds (lines 113-119) or a list with one
\* molecule per seed (lines 120-122), here alternating between a molecule and
\* the single atom at the origin.
InitMoleculeLists(k) ==
    UNION {{[seed \in 1..k |-> m1],
            [seed \in 1..k |-> IF seed % 2 = 1 THEN m1 ELSE <<0>>]} :
        m1 \in InitMolecules}

PaddingBudgets ==
    [n_node : {3, 4}, n_edge : {2, 6}, n_graph : {2, 3}]

NoBatch == [graphs |-> <<>>, pulled |-> 0, n_node |-> 0, n_edge |-> 0, n_graph |-> 0]

\* lines 151-170
InitPool ==
    /\ num_seeds \in 1..MaxSeeds
    /\ max_num_atoms \in {2, 3}
    /\ padding_budget \in PaddingBudgets
    /\ merge_cutoff \in {1, 2}
    /\ nn_cutoff \in {2}
    /\ \E init_molecules \in InitMoleculeLists(num_seeds) :
          init_fragments =
              [seed \in 1..num_seeds |->
                  [ase_atoms_to_jraph_graph(init_molecules[seed],
                                            InitSpecies(init_molecules[seed]),
                                            nn_cutoff)
                      EXCEPT !.globals = seed]]
    /\ fragment_pool = init_fragments
    /\ generated_molecules = <<>>
    /\ fragments = NoBatch
    /\ merged = <<>>
    /\ pc = "loop"

\* The outputs the predictor may return for one fragment: a stop flag, a
\* focus mask of at most MaxFocus nodes and, for each focus node, a relative
\* position that stays on Coords and a species out of S (the same species for
\* every focus node of one graph).
Preds(fragment, S) ==
    UNION {
        {[stop |-> st, focus_mask |-> fm, position_vectors |-> pv,
          target_species |-> ts] :
            st \in BOOLEAN,
            pv \in {v \in [fm -> Offsets] :
                       \A i \in fm : fragment.positions[i] + v[i] \in Coords},
            ts \in {[i \in fm |-> sp] : sp \in S}} :
        fm \in {m \in SUBSET (1..n_node(fragment)) : Cardinality(m) <= MaxFocus}}

RECURSIVE PredsFor(_)
PredsFor(graphs) ==
    IF graphs = <<>> THEN {<<>>}
    ELSE {<<p>> \o r : p \in Preds(Head(graphs), {NumSpecies - 1}),
                        r \in PredsFor(Tail(graphs))}

\* The output of the predictor for a padded batch (line 176): one prediction
\* for every graph of the batch, graph naming the graph it was computed for.
\* What it returns for a padding graph has no effect on a round; it is taken
\* to be stop with no focus, which would make a result of a padding graph.
PredsForBatch(batch) ==
    {[k \in 1..batch.n_graph |->
         [graph |-> k] @@
             (IF k <= Len(batch.graphs) THEN v[k]
              ELSE [stop |-> TRUE, focus_mask |-> {}, position_vectors |-> <<>>,
                    target_species |-> <<>>])] :
        v \in PredsFor(batch.graphs)}

\* line 171 leaving the loop one result early
LoopCond_OneShort ==
    Len(generated_molecules) < num_seeds - 1 /\ Len(fragment_pool) > 0

\* line 171
LoopCond == Len(generated_molecules) < num_seeds /\ Len(fragment_pool) > 0

\* line 178 with `>=` in place of `==`
Finalized_AtLeast(o) == o.stop \/ n_node(o.new_fragment) >= max_num_atoms

\* line 178
Finalized(o) == o.stop \/ n_node(o.new_fragment) = max_num_atoms

\* line 181 without the else: every merged fragment is put back
Requeued_Always(o) == TRUE

\* lines 180-181
Requeued(o) == ~Finalized(o)

\* line 179 with the flag of a recorded entry set because it was recorded
Entries_StopWhenFinalized(outs) ==
    [k \in 1..Len(outs) |-> [stop |-> TRUE, fragment |-> outs[k].new_fragment]]

\* line 179
Entries(outs) == [k \in 1..Len(outs) |->
                    [stop |-> outs[k].stop, fragment |-> outs[k].new_fragment]]
NewFragments(outs) == [k \in 1..Len(outs) |-> outs[k].new_fragment]

\* the queue of a batcher that leaves the batched fragments on it
Remaining_KeepsBatched(q, b) == q

\* the queue after the batcher has pulled its elements off it (lines 90-93)
Remaining(q, b) == SubSeq(q, b.pulled + 1, Len(q))

\* One round of the main loop, lines 171-181.
Round ==
    /\ pc = "loop"
    /\ LoopCond
    /\ LET b == dynamically_batch(fragment_pool, padding_budget)
       IN /\ ~b.raised
          /\ \E ps \in PredsForBatch(b) :
                LET outs == append_predictions(b, ps, merge_cutoff, nn_cutoff)
                IN /\ fragments' = [b EXCEPT !.raised = FALSE]
                   /\ merged' = outs
                   /\ generated_molecules' =
                          generated_molecules \o Entries(SelectSeq(outs, Finalized))
                   /\ fragment_pool' =
                          Remaining(fragment_pool, b)
                              \o NewFragments(SelectSeq(outs, Requeued))
    /\ pc' = "loop"
    /\ UNCHANGED args

\* The batcher raises on the first element it pulls (line 172).
RoundBatchRaises ==
    /\ pc = "loop"
    /\ LoopCond
    /\ LET b == dynamically_batch(fragment_pool, padding_budget)
       IN /\ b.raised
          /\ fragment_pool' = Remaining(fragment_pool, b)
    /\ pc' = "error"
    /\ UNCHANGED <<args, generated_molecules, fragments, merged>>

\* apply_fn raises (line 176): the exception leaves generate_molecules.
RoundPredictorRaises ==
    /\ pc = "loop"
    /\ LoopCond
    /\ LET b == dynamically_batch(fragment_pool, padding_budget)
       IN /\ ~b.raised
          /\ fragments' = [b EXCEPT !.raised = FALSE]
          /\ fragment_pool' = Remaining(fragment_pool, b)
    /\ pc' = "error"
    /\ UNCHANGED <<args, generated_molecules, merged>>

\* Drain that also runs after an exception, as a finally block would
Drain_AfterError ==
    /\ \/ pc = "loop" /\ ~LoopCond
       \/ pc = "error"
    /\ generated_molecules' =
           generated_molecules \o
               [k \in 1..Len(fragment_pool) |->
                   [stop |-> FALSE, fragment |-> fragment_pool[k]]]
    /\ fragment_pool' = <<>>
    /\ pc' = "done"
    /\ UNCHANGED <<args, fragments, merged>>

\* Loop exit and the drain of the remaining fragments, lines 183-186.
Drain ==
    /\ pc = "loop"
    /\ ~LoopCond
    /\ generated_molecules' =
           generated_molecules \o
               [k \in 1..Len(fragment_pool) |->
                   [stop |-> FALSE, fragment |-> fragment_pool[k]]]
    /\ fragment_pool' = <<>>
    /\ pc' = "done"
    /\ UNCHANGED <<args, fragments, merged>>

\* lines 119-122 and 188-202: the name and the file a result is written to
get_chemical_formula(g) ==
    LET numbers == numbers_of(g.species)
    IN [a \in Range(numbers) |-> Cardinality({i \in 1..Len(numbers) : numbers[i] = a})]

init_molecule_names ==
    [seed \in 1..num_seeds |-> get_chemical_formula(init_fragments[seed])]

output_file(entry) ==
    LET seed == entry.fragment.globals
    IN [init_molecule_name |-> init_molecule_names[seed],
        seed |-> seed,
        no_stop |-> ~entry.stop]

\* ---------------------------- append_predictions_to_fragment on its own
MaxMergeAtoms == 3

\* The placements of up to m atoms at distinct points of Coords, and the
\* structures over them with species out of S.
Placements(m) ==
    {p \in UNION {[1..k -> Coords] : k \in 1..m} :
        \A i, j \in 1..Len(p) : i # j => p[i] # p[j]}

Structures(m, S) ==
    UNION {{[positions |-> p, species |-> sp] : sp \in [1..Len(p) -> S]} :
              p \in Placements(m)}

NoOut == [stop |-> FALSE, new_fragment |-> <<>>, accepted |-> <<>>]

InitMerge ==
    /\ \E p \in Placements(MaxMergeAtoms) :
          m_fragment = [ase_atoms_to_jraph_graph(p, InitSpecies(p), 2)
                           EXCEPT !.globals = 1]
    /\ m_pred \in Preds(m_fragment, TargetSpecies)
    /\ m_cutoff \in {1, 2}
    /\ m_out = NoOut

Merge ==
    /\ m_out = NoOut
    /\ m_out' = append_predictions_to_fragment(m_fragment, m_pred, m_cutoff, 2)
    /\ UNCHANGED <<m_fragment, m_pred, m_cutoff>>

\* -------------------------------------------------------- fragments.py
MaxFragAtoms == 3
\* the species of the structures that are decomposed: hydrogen and two other
\* kinds.  Without heavy_first the code only compares species for equality,
\* and hydrogen and one other kind are used.
FragSpecies == {0, 1, 2}
LightSpecies == {0, 1}

Min(S) == CHOOSE x \in S : \A y \in S : x <= y

\* the edge indices of a graph, and the distance along an edge (lines 47-50)
EdgeIds(g) == 1..Len(g.senders)
dist(g, e) == norm(g.positions[g.receivers[e]], g.positions[g.senders[e]])

\* receivers[mask], in edge order
ReceiversOf(g, mask) ==
    LET ids == SortedSeq(mask) IN [k \in 1..Len(ids) |-> g.receivers[ids[k]]]

\* np.bincount(xs, minlength=n) over the species 0..n-1, as a sequence
bincount(xs, n) ==
    [sp \in 1..n |-> Cardinality({k \in 1..Len(xs) : xs[k] = sp - 1})]

ZeroCounts(n, m) == [i \in 1..n |-> [sp \in 1..m |-> 0]]

\* A probability table is kept as integer counts over a common total:
\* entry = counts / total.
Probs(counts, total) == [counts |-> counts, total |-> total]

\* the permutations of 1..n
Perms(n) == {p \in [1..n -> 1..n] : \A i, j \in 1..n : i # j => p[i] # p[j]}

\* _move_first that leaves the order alone
_move_first_Identity(xs, x) == xs

\* _move_first that slices from x on instead of rolling
_move_first_Slice(xs, x) ==
    LET k == CHOOSE i \in 1..Len(xs) : xs[i] = x /\ \A j \in 1..(i - 1) : xs[j] # x
    IN SubSeq(xs, k, Len(xs))

\* _move_first(xs, x) = np.roll(xs, -index of x)
_move_first(xs, x) ==
    LET k == Min({i \in 1..Len(xs) : xs[i] = x})
    IN [i \in 1..Len(xs) |-> xs[((i - 1 + k - 1) % Len(xs)) + 1]]

\* subgraph that keeps every edge sent from one of the nodes
subgraph_SendersOnly(g, nodes) ==
    LET edges == {e \in EdgeIds(g) :
                     g.senders[e] \in Range(nodes)}
        ids == SortedSeq(edges)
        new_node_indices(v) ==
            IF v \in Range(nodes)
            THEN CHOOSE k \in 1..Len(nodes) :
                    nodes[k] = v /\ \A j \in (k + 1)..Len(nodes) : nodes[j] # v
            ELSE -1
    IN [g EXCEPT
          !.positions = [k \in 1..Len(nodes) |-> g.positions[nodes[k]]],
          !.species = [k \in 1..Len(nodes) |-> g.species[nodes[k]]],
          !.focus_and_target_species_probs =
              Probs([k \in 1..Len(nodes) |->
                        g.focus_and_target_species_probs.counts[nodes[k]]],
                    g.focus_and_target_species_probs.total),
          !.senders = [k \in 1..Len(ids) |-> new_node_indices(g.senders[ids[k]])],
          !.receivers = [k \in 1..Len(ids) |-> new_node_indices(g.receivers[ids[k]])],
          !.n_node = Len(nodes),
          !.n_edge = Cardinality(edges)]

\* subgraph(graph, nodes), lines 320-348; g carries the node and global fields
\* that _into_fragment has attached.
subgraph(g, nodes) ==
    LET edges == {e \in EdgeIds(g) :
                     g.senders[e] \in Range(nodes) /\ g.receivers[e] \in Range(nodes)}
        ids == SortedSeq(edges)
        new_node_indices(v) ==
            IF v \in Range(nodes)
            THEN CHOOSE k \in 1..Len(nodes) :
                    nodes[k] = v /\ \A j \in (k + 1)..Len(nodes) : nodes[j] # v
            ELSE -1
    IN [g EXCEPT
          !.positions = [k \in 1..Len(nodes) |-> g.positions[nodes[k]]],
          !.species = [k \in 1..Len(nodes) |-> g.species[nodes[k]]],
          !.focus_and_target_species_probs =
              Probs([k \in 1..Len(nodes) |->
                        g.focus_and_target_species_probs.counts[nodes[k]]],
                    g.focus_and_target_species_probs.total),
          !.senders = [k \in 1..Len(ids) |-> new_node_indices(g.senders[ids[k]])],
          !.receivers = [k \in 1..Len(ids) |-> new_node_indices(g.receivers[ids[k]])],
          !.n_node = Len(nodes),
          !.n_edge = Cardinality(edges)]

\* _into_fragment, lines 267-308
_into_fragment(g, visited, focus_node, target_species_probability, target_species, target_positions, stop, max_targets) ==
    LET target_positions_padded ==
            [k \in 1..max_targets |->
                IF k <= Len(target_positions) THEN target_positions[k] ELSE 0]
        target_position_mask ==
            [k \in 1..max_targets |-> k <= Len(target_positions)]
        full == [positions |-> g.positions,
                 species |-> g.species,
                 focus_and_target_species_probs |-> target_species_probability,
                 senders |-> g.senders,
                 receivers |-> g.receivers,
                 stop |-> stop,
                 target_species |-> target_species,
                 target_positions |-> target_positions_padded,
                 target_position_mask |-> target_position_mask,
                 n_node |-> Len(g.positions),
                 n_edge |-> Len(g.senders)]
    IN IF stop THEN full
       ELSE subgraph(full, _move_first(visited, focus_node))

\* _make_last_fragment, lines 253-264
_make_last_fragment(g, nsp, max_targets) ==
    _into_fragment(g, [i \in 1..Len(g.positions) |-> i], 1,
                   Probs(ZeroCounts(Len(g.positions), nsp), 1),
                   0, <<0>>, TRUE, max_targets)

\* --- _make_first_fragment
\* np.average(positions, weights=(species > 0) if heavy_first else None)
\* raises ZeroDivisionError when every weight is zero (line 103).
ComRaises(g, hf) == hf /\ \A i \in 1..Len(g.positions) : g.species[i] = 0

\* the support of the choice of the start atom, lines 109-118
FirstNodes(g, hf) ==
    IF hf /\ \E i \in 1..Len(g.positions) : g.species[i] # 0
    THEN {i \in 1..Len(g.positions) : g.species[i] # 0}
    ELSE 1..Len(g.positions)

\* lines 120-122; (mask & species[receivers] > 0) is (mask & species[receivers]) > 0:
\* the bitwise and of a boolean with the species index keeps its lowest bit.
FirstMask(g, hf, first_node) ==
    LET mask == {e \in EdgeIds(g) : g.senders[e] = first_node}
    IN IF hf /\ \E e \in mask : g.species[g.receivers[e]] % 2 > 0
       THEN {e \in mask : g.species[g.receivers[e]] > 0}
       ELSE mask

\* lines 123-128 and 195-200: the restriction of a candidate edge set by the
\* mode.  dist[mask].min() raises ValueError on an empty mask.
MinRaises(md, mask) == md = "nn" /\ mask = {}

\* Restrict without the tolerance above the nearest candidate
Restrict_NoTolerance(g, md, tol, radius, mask) ==
    IF md = "nn"
    THEN {e \in mask : dist(g, e) < Min({dist(g, d) : d \in mask})}
    ELSE {e \in mask : dist(g, e) < radius}

Restrict(g, md, tol, radius, mask) ==
    IF md = "nn"
    THEN {e \in mask : dist(g, e) < Min({dist(g, d) : d \in mask}) + tol}
    ELSE {e \in mask : dist(g, e) < radius}

\* Samples with the recorded positions shuffled by a draw that is not one of
\* the recorded choices
Samples_HiddenDraw(g, focus_node, targets, max_targets) ==
    UNION {
        LET is_same(t) == g.species[t] = target_species
            targets_of_same_species == SelectSeq(targets, is_same)
            m == Len(targets_of_same_species)
            kept == IF m < max_targets THEN m ELSE max_targets
        IN {[target_species |-> target_species,
             targets_of_same_species |-> targets_of_same_species,
             target |-> target,
             order |-> [k \in 1..kept |-> perm[k]],
             target_positions |->
                 [k \in 1..kept |->
                     g.positions[targets_of_same_species[hidden[k]]]
                         - g.positions[focus_node]]] :
               target \in Range(targets_of_same_species),
               perm \in Perms(m), hidden \in Perms(m)} :
        target_species \in {g.species[targets[k]] : k \in 1..Len(targets)}}

\* Samples with the recorded positions drawn one by one, with replacement
Samples_Repeats(g, focus_node, targets, max_targets) ==
    UNION {
        LET is_same(t) == g.species[t] = target_species
            targets_of_same_species == SelectSeq(targets, is_same)
            m == Len(targets_of_same_species)
            kept == IF m < max_targets THEN m ELSE max_targets
        IN {[target_species |-> target_species,
             targets_of_same_species |-> targets_of_same_species,
             target |-> target,
             order |-> [k \in 1..kept |-> perm[k]],
             target_positions |->
                 [k \in 1..kept |->
                     g.positions[targets_of_same_species[perm[k]]]
                         - g.positions[focus_node]]] :
               target \in Range(targets_of_same_species),
               perm \in [1..m -> 1..m]} :
        target_species \in {g.species[targets[k]] : k \in 1..Len(targets)}}

\* lines 138-152 and 220-235: the sampled target species, target atom and the
\* recorded target positions, for the candidate atoms `targets` of a focus.
\* order is the part of the sampled permutation that line 150 / 233 keeps.
Samples(g, focus_node, targets, max_targets) ==
    UNION {
        LET is_same(t) == g.species[t] = target_species
            targets_of_same_species == SelectSeq(targets, is_same)
            m == Len(targets_of_same_species)
            kept == IF m < max_targets THEN m ELSE max_targets
        IN {[target_species |-> target_species,
             targets_of_same_species |-> targets_of_same_species,
             target |-> target,
             order |-> [k \in 1..kept |-> perm[k]],
             target_positions |->
                 [k \in 1..kept |->
                     g.positions[targets_of_same_species[perm[k]]]
                         - g.positions[focus_node]]] :
               target \in Range(targets_of_same_species),
               perm \in Perms(m)} :
        target_species \in {g.species[targets[k]] : k \in 1..Len(targets)}}

\* The keys split off the random stream by one step, in the order of lines
\* 110, 139, 143, 149 and 215, 222, 226, 232; split counts the splits of the
\* stream since the start of the sequence.
SplitOrder == <<"focus", "target_species", "target", "permutation">>
Draws(steps_done) ==
    [j \in 1..4 |-> [use |-> SplitOrder[j], split |-> 4 * steps_done + j]]

\* FirstProbs with the species count written to row 0 of the table
FirstProbs_RowZero(g, first_node, targets, nsp) ==
    Probs([i \in 1..Len(g.positions) |->
              IF i = 1
              THEN bincount([k \in 1..Len(targets) |-> g.species[targets[k]]],
                            nsp)
              ELSE [sp \in 1..nsp |-> 0]],
          Len(targets))

\* lines 133-136: the row of the start atom is the normalised species count
FirstProbs(g, first_node, targets, nsp) ==
    Probs([i \in 1..Len(g.positions) |->
              IF i = first_node
              THEN bincount([k \in 1..Len(targets) |-> g.species[targets[k]]],
                            nsp)
              ELSE [sp \in 1..nsp |-> 0]],
          Len(targets))

\* --- _make_middle_fragment
\* MiddleMask without the exclusion of the visited receivers
MiddleMask_AnyReceiver(g, hf, visited) ==
    LET mask == {e \in EdgeIds(g) : g.senders[e] \in Range(visited)}
        heavy == {i \in 1..Len(g.positions) : g.species[i] > 0}
    IN IF hf /\ Cardinality(heavy) > Cardinality(heavy \cap Range(visited))
       THEN {e \in mask : g.species[g.senders[e]] > 0
                            /\ g.species[g.receivers[e]] > 0}
       ELSE mask

\* lines 184-200
MiddleMask(g, hf, visited) ==
    LET mask == {e \in EdgeIds(g) :
                    g.senders[e] \in Range(visited)
                        /\ g.receivers[e] \notin Range(visited)}
        heavy == {i \in 1..Len(g.positions) : g.species[i] > 0}
    IN IF hf /\ Cardinality(heavy) > Cardinality(heavy \cap Range(visited))
       THEN {e \in mask : g.species[g.senders[e]] > 0
                            /\ g.species[g.receivers[e]] > 0}
       ELSE mask

\* lines 202-212
MiddleProbs(g, mask, nsp) ==
    Probs([focus_node \in 1..Len(g.positions) |->
              LET targets == ReceiversOf(g, {e \in mask : g.senders[e] = focus_node})
              IN bincount([k \in 1..Len(targets) |-> g.species[targets[k]]],
                          nsp)],
          Cardinality(mask))

\* --- generate_fragments
\* The search parameters for a graph built with the given cutoff.  With the
\* cutoff 2 every bond has length 1 and the tolerances 1 and 2 select the same
\* candidates, so the tolerance 2 is used with the cutoff 3 only.
SearchModes(cut) ==
    {[mode |-> "nn", nn_tolerance |-> 0, max_radius |-> 2],
     [mode |-> "nn", nn_tolerance |-> 1, max_radius |-> 2],
     [mode |-> "radius", nn_tolerance |-> 1, max_radius |-> 2]}
    \cup (IF cut = 3
          THEN {[mode |-> "nn", nn_tolerance |-> 2, max_radius |-> 2]}
          ELSE {})

AscendingStructures(m, S) ==
    {st \in Structures(m, S) :
        /\ Len(st.positions) >= 2
        /\ \A i \in 1..(Len(st.positions) - 1) :
              st.positions[i] < st.positions[i + 1]}

InitFrag ==
    /\ heavy_first \in BOOLEAN
    /\ \E cut \in {2, 3} :
          /\ \E st \in AscendingStructures(MaxFragAtoms,
                        IF heavy_first THEN FragSpecies ELSE LightSpecies) :
                graph = ase_atoms_to_jraph_graph(st.positions, st.species, cut)
          /\ \E sm \in SearchModes(cut) :
                /\ mode = sm.mode
                /\ nn_tolerance = sm.nn_tolerance
                /\ max_radius = sm.max_radius
    /\ max_targets_per_graph \in {1, 2}
    /\ visited_nodes = <<>>
    /\ frags = <<>>
    /\ steps = <<>>
    /\ fpc = "first"

n == Len(graph.positions)

\* lines 54-66: the first fragment is yielded
FirstFragment ==
    /\ fpc = "first"
    /\ ~ComRaises(graph, heavy_first)
    /\ \E first_node \in FirstNodes(graph, heavy_first) :
          LET mask == FirstMask(graph, heavy_first, first_node)
          IN /\ ~MinRaises(mode, mask)
             /\ LET targets == ReceiversOf(graph,
                                  Restrict(graph, mode, nn_tolerance, max_radius, mask))
                IN /\ Len(targets) # 0
                   /\ \E c \in Samples(graph, first_node, targets, max_targets_per_graph) :
                         /\ frags' = Append(frags,
                                _into_fragment(graph, <<first_node>>, first_node,
                                    FirstProbs(graph, first_node, targets, n_species),
                                    c.target_species, c.target_positions, FALSE,
                                    max_targets_per_graph))
                         /\ steps' = Append(steps,
                                [focus_node |-> first_node, visited |-> <<first_node>>,
                                 targets |-> targets, choice |-> c,
                                 target_species_probability |->
                                     FirstProbs(graph, first_node, targets, n_species),
                                 draws |-> Draws(Len(steps))])
                         /\ visited_nodes' = <<first_node, c.target>>
    /\ fpc' = IF n - 2 > 0 THEN "middle" ELSE "last"
    /\ UNCHANGED fargs

\* lines 68-81: one more middle fragment is yielded
MiddleFragment ==
    /\ fpc = "middle"
    /\ LET mask0 == MiddleMask(graph, heavy_first, visited_nodes)
       IN /\ ~MinRaises(mode, mask0)
          /\ LET mask == Restrict(graph, mode, nn_tolerance, max_radius, mask0)
             IN /\ mask # {}
                /\ \E focus_node \in {graph.senders[e] : e \in mask} :
                      LET targets == ReceiversOf(graph,
                                         {e \in mask : graph.senders[e] = focus_node})
                      IN \E c \in Samples(graph, focus_node, targets, max_targets_per_graph) :
                            /\ frags' = Append(frags,
                                   _into_fragment(graph, visited_nodes, focus_node,
                                       MiddleProbs(graph, mask, n_species),
                                       c.target_species, c.target_positions, FALSE,
                                       max_targets_per_graph))
                            /\ steps' = Append(steps,
                                   [focus_node |-> focus_node, visited |-> visited_nodes,
                                    targets |-> targets, choice |-> c,
                                    target_species_probability |->
                                        MiddleProbs(graph, mask, n_species),
                                    draws |-> Draws(Len(steps))])
                            /\ visited_nodes' = Append(visited_nodes, c.target)
    /\ fpc' = IF Len(frags') < n - 1 THEN "middle" ELSE "last"
    /\ UNCHANGED fargs

\* Abandon with the last fragment yielded although the sequence was cut short
Abandon_YieldsLast ==
    /\ \/ /\ fpc = "first"
          /\ ~ComRaises(graph, heavy_first)
          /\ \E first_node \in FirstNodes(graph, heavy_first) :
                LET mask == FirstMask(graph, heavy_first, first_node)
                IN \/ MinRaises(mode, mask)
                   \/ Restrict(graph, mode, nn_tolerance, max_radius, mask) = {}
       \/ /\ fpc = "middle"
          /\ LET mask0 == MiddleMask(graph, heavy_first, visited_nodes)
             IN \/ MinRaises(mode, mask0)
                \/ Restrict(graph, mode, nn_tolerance, max_radius, mask0) = {}
    /\ frags' = Append(frags,
           _make_last_fragment(graph, n_species, max_targets_per_graph))
    /\ fpc' = "abandoned"
    /\ UNCHANGED <<fargs, visited_nodes, steps>>

\* lines 82-83: a ValueError of the first or of a middle step ends the generator
Abandon ==
    /\ \/ /\ fpc = "first"
          /\ ~ComRaises(graph, heavy_first)
          /\ \E first_node \in FirstNodes(graph, heavy_first) :
                LET mask == FirstMask(graph, heavy_first, first_node)
                IN \/ MinRaises(mode, mask)
                   \/ Restrict(graph, mode, nn_tolerance, max_radius, mask) = {}
       \/ /\ fpc = "middle"
          /\ LET mask0 == MiddleMask(graph, heavy_first, visited_nodes)
             IN \/ MinRaises(mode, mask0)
                \/ Restrict(graph, mode, nn_tolerance, max_radius, mask0) = {}
    /\ fpc' = "abandoned"
    /\ UNCHANGED <<fargs, visited_nodes, frags, steps>>

\* line 103: the ZeroDivisionError of np.average is not caught
FirstRaises ==
    /\ fpc = "first"
    /\ ComRaises(graph, heavy_first)
    /\ fpc' = "raised"
    /\ UNCHANGED <<fargs, visited_nodes, frags, steps>>

\* lines 84-87: the last fragment is yielded
LastFragment ==
    /\ fpc = "last"
    /\ Len(visited_nodes) = n
    /\ frags' = Append(frags,
           _make_last_fragment(graph, n_species, max_targets_per_graph))
    /\ fpc' = "done"
    /\ UNCHANGED <<fargs, visited_nodes, steps>>

\* ------------------------------------- qm9_fragmenter.generate_all_fragments
\* the species of the molecules of a dataset
GenSpecies == {0, 1}

GenModes ==
    {[mode |-> "nn", nn_tolerance |-> 1, max_radius |-> 1],
     [mode |-> "nn", nn_tolerance |-> 1, max_radius |-> 2],
     [mode |-> "radius", nn_tolerance |-> 1, max_radius |-> 2]}

\* The molecules of a dataset: at least two atoms at ascending points.
GenStructures == AscendingStructures(MaxFragAtoms, GenSpecies)

\* lines 28-53; generate_fragments is called without max_targets_per_graph,
\* which is then 1 (fragments.py line 21).
InitGen ==
    /\ g_nn_cutoff \in {2, 3}
    /\ \E sm \in GenModes :
          /\ mode = sm.mode
          /\ nn_tolerance = sm.nn_tolerance
          /\ max_radius = sm.max_radius
    /\ heavy_first \in BOOLEAN
    /\ max_targets_per_graph = 1
    /\ graph = <<>>
    /\ visited_nodes = <<>>
    /\ frags = <<>>
    /\ steps = <<>>
    /\ fpc = "idle"
    /\ previous = "none"
    /\ yielded = <<>>
    /\ gpc = "next"

\* lines 75-85: the loop takes the next molecule's graph and starts its
\* decomposition.  The list of molecules is an input of any length; each
\* molecule is drawn when the loop reaches it.
GenStart ==
    /\ gpc = "next"
    /\ \E st \in GenStructures :
          graph' = ase_atoms_to_jraph_graph(st.positions, st.species, g_nn_cutoff)
    /\ visited_nodes' = <<>>
    /\ frags' = <<>>
    /\ steps' = <<>>
    /\ fpc' = "first"
    /\ yielded' = <<>>
    /\ gpc' = "fragments"
    /\ UNCHANGED <<mode, nn_tolerance, max_radius, heavy_first,
                   max_targets_per_graph, g_nn_cutoff, previous>>

\* line 90: the norm of the target positions of a fragment exceeds the radius
TooFar(frag, radius) ==
    SumSeq([k \in 1..Len(frag.target_positions) |->
               frag.target_positions[k] * frag.target_positions[k]])
        > radius * radius

\* lines 88-99
Skip(fs, radius) ==
    \/ \E k \in 1..Len(fs) : TooFar(fs[k], radius)
    \/ Len(fs) = 0
    \/ ~fs[Len(fs)].stop

\* lines 105-120: the record yielded for a fragment
Record(frag) ==
    [positions |-> frag.positions,
     species |-> frag.species,
     focus_and_target_species_probs |-> frag.focus_and_target_species_probs,
     senders |-> frag.senders,
     receivers |-> frag.receivers,
     stop |-> frag.stop,
     target_positions |-> frag.target_positions,
     target_species |-> frag.target_species,
     n_node |-> frag.n_node,
     n_edge |-> frag.n_edge]

\* what became of the molecule whose fragments are fs
Outcome(fs, radius) ==
    IF ~Skip(fs, radius) THEN "yielded"
    ELSE IF Len(fs) = 0 THEN "abandoned_empty"
    ELSE IF ~fs[Len(fs)].stop THEN "abandoned_partial"
    ELSE "too_far"

\* GenCollect that yields whatever fragments the decomposition produced
GenCollect_YieldsPartial ==
    /\ gpc = "fragments"
    /\ fpc \in {"done", "abandoned"}
    /\ yielded' = [k \in 1..Len(frags) |-> Record(frags[k])]
    /\ previous' = Outcome(frags, max_radius)
    /\ gpc' = "next"
    /\ UNCHANGED <<fragvars, g_nn_cutoff>>

\* lines 86-120: the fragments of the molecule are listed, checked and, unless
\* skipped, yielded; the loop goes on to the next molecule.
GenCollect ==
    /\ gpc = "fragments"
    /\ fpc \in {"done", "abandoned"}
    /\ yielded' = IF Skip(frags, max_radius) THEN <<>>
                  ELSE [k \in 1..Len(frags) |-> Record(frags[k])]
    /\ previous' = Outcome(frags, max_radius)
    /\ gpc' = "next"
    /\ UNCHANGED <<fragvars, g_nn_cutoff>>

\* line 86: an exception of generate_fragments leaves the generator
GenRaises ==
    /\ gpc = "fragments"
    /\ fpc = "raised"
    /\ gpc' = "raised"
    /\ UNCHANGED <<fragvars, g_nn_cutoff, previous, yielded>>

\* line 75: no molecule is left
GenEnd ==
    /\ gpc = "next"
    /\ gpc' = "done"
    /\ UNCHANGED <<fragvars, g_nn_cutoff, previous, yielded>>

\* ------------------------------------------------------------ specifications
vars == <<poolvars, mergevars, fragvars, genvars>>

PoolIdle ==
    /\ num_seeds = 0 /\ max_num_atoms = 0 /\ padding_budget = <<>>
    /\ merge_cutoff = 0 /\ nn_cutoff = 0 /\ init_fragments = <<>>
    /\ fragment_pool = <<>> /\ generated_molecules = <<>>
    /\ fragments = NoBatch /\ merged = <<>> /\ pc = "idle"

MergeIdle ==
    /\ m_fragment = <<>> /\ m_pred = <<>> /\ m_cutoff = 0 /\ m_out = <<>>

FragIdle ==
    /\ graph = <<>> /\ mode = "" /\ nn_tolerance = 0 /\ max_radius = 0
    /\ heavy_first = FALSE /\ max_targets_per_graph = 0
    /\ visited_nodes = <<>> /\ frags = <<>> /\ steps = <<>> /\ fpc = "idle"

GenIdle ==
    /\ g_nn_cutoff = 0 /\ previous = "none"
    /\ yielded = <<>> /\ gpc = "idle"

\* generate_molecules
Init == InitPool /\ MergeIdle /\ FragIdle /\ GenIdle

Next ==
    \/ Round /\ UNCHANGED <<mergevars, fragvars, genvars>>
    \/ RoundBatchRaises /\ UNCHANGED <<mergevars, fragvars, genvars>>
    \/ RoundPredictorRaises /\ UNCHANGED <<mergevars, fragvars, genvars>>
    \/ Drain /\ UNCHANGED <<mergevars, fragvars, genvars>>

Spec == Init /\ [][Next]_vars

\* append_predictions_to_fragment
InitM == InitMerge /\ PoolIdle /\ FragIdle /\ GenIdle

NextM == Merge /\ UNCHANGED <<poolvars, fragvars, genvars>>

SpecMerge == InitM /\ [][NextM]_vars

\* generate_fragments
InitF == InitFrag /\ PoolIdle /\ MergeIdle /\ GenIdle

NextF ==
    \/ FirstFragment /\ UNCHANGED <<poolvars, mergevars, genvars>>
    \/ MiddleFragment /\ UNCHANGED <<poolvars, mergevars, genvars>>
    \/ LastFragment /\ UNCHANGED <<poolvars, mergevars, genvars>>
    \/ Abandon /\ UNCHANGED <<poolvars, mergevars, genvars>>
    \/ FirstRaises /\ UNCHANGED <<poolvars, mergevars, genvars>>

SpecFrag == InitF /\ [][NextF]_vars

\* generate_all_fragments
InitG == InitGen /\ PoolIdle /\ MergeIdle

NextG ==
    \/ GenStart /\ UNCHANGED <<poolvars, mergevars>>
    \/ gpc = "fragments" /\ FirstFragment /\ UNCHANGED <<poolvars, mergevars, genvars>>
    \/ gpc = "fragments" /\ MiddleFragment /\ UNCHANGED <<poolvars, mergevars, genvars>>
    \/ gpc = "fragments" /\ LastFragment /\ UNCHANGED <<poolvars, mergevars, genvars>>
    \/ gpc = "fragments" /\ Abandon /\ UNCHANGED <<poolvars, mergevars, genvars>>
    \/ gpc = "fragments" /\ FirstRaises /\ UNCHANGED <<poolvars, mergevars, genvars>>
    \/ GenCollect /\ UNCHANGED <<poolvars, mergevars>>
    \/ GenRaises /\ UNCHANGED <<poolvars, mergevars>>
    \/ GenEnd /\ UNCHANGED <<poolvars, mergevars>>

SpecGen == InitG /\ [][NextG]_vars

\* ================================================================== claims
\* --- generate_molecules (Spec)

\* C1: a run that returns has exactly num_seeds results, one for each seed id.
C1_OneResultPerSeed ==
    pc = "done" =>
        /\ Len(generated_molecules) = num_seeds
        /\ \A seed \in 1..num_seeds :
              Cardinality({k \in 1..Len(generated_molecules) :
                              generated_molecules[k].fragment.globals = seed}) = 1

\* C3: the batch handed to the predictor stays within the padding budget on
\* the node, edge and graph axes, padding included, and so do its valid
\* fragments.
C3_BatchWithinBudget ==
    fragments # NoBatch =>
        /\ fragments.n_node <= padding_budget.n_node
        /\ fragments.n_edge <= padding_budget.n_edge
        /\ fragments.n_graph <= padding_budget.n_graph
        /\ SumSeq([k \in 1..Len(fragments.graphs) |->
                      Len(fragments.graphs[k].positions)]) <= padding_budget.n_node
        /\ SumSeq([k \in 1..Len(fragments.graphs) |->
                      Len(fragments.graphs[k].senders)]) <= padding_budget.n_edge
        /\ Len(fragments.graphs) <= padding_budget.n_graph

\* a batch of two fragments whose nodes fill the valid part of the budget
C3_Witness ==
    /\ fragments # NoBatch
    /\ Len(fragments.graphs) >= 2
    /\ NodesOf(fragments.graphs) = padding_budget.n_node - 1

\* C4: a round that takes a fragment larger than the budget off the pending
\* queue aborts the run, whatever the fragment's position in the queue.
C4_OversizedAborts ==
    [][\A k \in 1..Len(fragment_pool) :
          (/\ pc = "loop"
           /\ LoopCond
           /\ IsOverBatchSize(fragment_pool[k], padding_budget)
           /\ k <= dynamically_batch(fragment_pool, padding_budget).pulled)
              => pc' = "error"]_vars

\* C7: after a round each merged seed is either recorded (exactly when stop
\* was returned or the merged fragment has max_num_atoms atoms) or its merged
\* fragment is at the back of the pending queue, never both.
C7_RecordOrRequeue ==
    [][(pc = "loop" /\ pc' = "loop") =>
          LET kept == Len(fragment_pool) - fragments'.pulled
              recorded(o) ==
                  \E j \in (Len(generated_molecules) + 1)..Len(generated_molecules') :
                      generated_molecules'[j] =
                          [stop |-> o.stop, fragment |-> o.new_fragment]
              requeued(o) ==
                  \E j \in (kept + 1)..Len(fragment_pool') :
                      fragment_pool'[j] = o.new_fragment
              anywhere(o) ==
                  \/ \E j \in 1..Len(fragment_pool') :
                        fragment_pool'[j].globals = o.fragment.globals
                  \/ \E j \in 1..Len(generated_molecules) :
                        generated_molecules[j].fragment.globals = o.fragment.globals
          IN /\ \A k \in 1..Len(merged') :
                   LET o == merged'[k]
                   IN /\ recorded(o) <=>
                             (o.stop \/ Len(o.new_fragment.positions) = max_num_atoms)
                      /\ requeued(o) <=> ~recorded(o)
                      /\ recorded(o) => ~anywhere(o)
             /\ (Len(generated_molecules') - Len(generated_molecules))
                    + (Len(fragment_pool') - kept) = Len(merged')]_vars

\* a round has recorded one seed at the atom cap without stop and has put back
\* another seed's grown fragment
C7_Witness ==
    /\ pc = "loop"
    /\ \E k \in 1..Len(merged) :
          /\ ~merged[k].stop
          /\ Len(merged[k].new_fragment.positions) = max_num_atoms
          /\ \E j \in 1..Len(generated_molecules) :
                generated_molecules[j].fragment = merged[k].new_fragment
    /\ \E k \in 1..Len(merged) :
          /\ Len(merged[k].new_fragment.positions) > Len(merged[k].fragment.positions)
          /\ Len(fragment_pool) > 0
          /\ fragment_pool[Len(fragment_pool)] = merged[k].new_fragment

\* the seed ids of the recorded results
RecordedSeeds == {generated_molecules[j].fragment.globals :
                     j \in 1..Len(generated_molecules)}

\* the step is a round whose batch was built without the batcher raising
BatchBuilt ==
    /\ pc = "loop"
    /\ LoopCond
    /\ ~dynamically_batch(fragment_pool, padding_budget).raised

\* C11: once a seed has an entry in the results, no fragment with its seed id
\* is in the pending queue or in a later batch, and the entry stays in the
\* results unchanged and at its place.
C11_TerminalAbsorbing ==
    /\ [](\A k \in 1..Len(fragment_pool) :
             fragment_pool[k].globals \notin RecordedSeeds)
    /\ [][BatchBuilt =>
             \A k \in 1..Len(fragments'.graphs) :
                 fragments'.graphs[k].globals \notin RecordedSeeds]_vars
    /\ [][/\ Len(generated_molecules') >= Len(generated_molecules)
          /\ SubSeq(generated_molecules', 1, Len(generated_molecules))
                 = generated_molecules]_vars

\* a seed was recorded in an earlier round, and the last round has merged and
\* put back a fragment of another seed
C11_Witness ==
    /\ pc = "loop"
    /\ Len(generated_molecules) >= 1
    /\ merged # <<>>
    /\ \A k \in 1..Len(merged) : Requeued(merged[k])
    /\ Len(fragment_pool) >= 1

\* C12: a batch holds each seed id at most once and so does the pending queue
\* at every moment; every fragment a round puts on the queue or records is the
\* merge of a prediction into the one version of its seed that was pending
\* before the round.
C12_OneVersionPerSeed ==
    /\ [](\A i, j \in 1..Len(fragment_pool) :
             i # j => fragment_pool[i].globals # fragment_pool[j].globals)
    /\ [](\A i, j \in 1..Len(fragments.graphs) :
             i # j => fragments.graphs[i].globals # fragments.graphs[j].globals)
    /\ [][(pc = "loop" /\ pc' = "loop") =>
             /\ \A k \in 1..Len(merged') :
                   LET o == merged'[k]
                       before == {i \in 1..Len(fragment_pool) :
                                     fragment_pool[i].globals = o.fragment.globals}
                   IN /\ Cardinality(before) = 1
                      /\ \A i \in before : fragment_pool[i] = o.fragment
                      /\ o.new_fragment.globals = o.fragment.globals
                      /\ SubSeq(o.new_fragment.positions, 1, Len(o.fragment.positions))
                             = o.fragment.positions
             /\ \A j \in 1..Len(fragment_pool') :
                   \/ \E i \in 1..Len(fragment_pool) :
                         fragment_pool'[j] = fragment_pool[i]
                   \/ \E k \in 1..Len(merged') :
                         fragment_pool'[j] = merged'[k].new_fragment]_vars

\* a seed is at its third version: the fragment merged in the last round had
\* grown before and has grown again, while another seed was recorded
C12_Witness ==
    /\ num_seeds = 2
    /\ \E k \in 1..Len(merged) :
          LET o == merged[k]
          IN /\ Len(o.fragment.positions)
                    > Len(init_fragments[o.fragment.globals].positions)
             /\ Len(o.new_fragment.positions) > Len(o.fragment.positions)
             /\ \E s \in RecordedSeeds : s # o.fragment.globals

\* C13: the stop of an entry recorded by a round is the stop flag the
\* predictor returned for that seed in that round, so an entry recorded only
\* for reaching max_num_atoms has stop = FALSE; an entry recorded by the drain
\* has stop = FALSE.
C13_StopIsTruthful ==
    [][LET new == {j \in 1..Len(generated_molecules') :
                      j > Len(generated_molecules)}
       IN /\ (pc = "loop" /\ pc' = "loop") =>
                \A j \in new :
                    LET e == generated_molecules'[j]
                    IN \E k \in 1..Len(merged') :
                          /\ merged'[k].fragment.globals = e.fragment.globals
                          /\ merged'[k].new_fragment = e.fragment
                          /\ e.stop = merged'[k].pred_stop
                          /\ ~merged'[k].pred_stop =>
                                 /\ e.stop = FALSE
                                 /\ n_node(e.fragment) = max_num_atoms
          /\ (pc = "loop" /\ pc' = "done") =>
                \A j \in new : generated_molecules'[j].stop = FALSE]_vars

\* the results hold an entry recorded with stop and an entry recorded at
\* max_num_atoms without stop
C13_Witness ==
    /\ \E j \in 1..Len(generated_molecules) : generated_molecules[j].stop
    /\ \E j \in 1..Len(generated_molecules) :
          /\ ~generated_molecules[j].stop
          /\ n_node(generated_molecules[j].fragment) = max_num_atoms

\* C14: a round whose predictor call raises ends the run: nothing is merged
\* or recorded, no fragment of its batch is on the queue afterwards, and the
\* run takes no further step (no retry, no drain, no return).
C14_PredictorErrorAborts ==
    /\ [][(BatchBuilt /\ pc' = "error") =>
             /\ merged' = merged
             /\ generated_molecules' = generated_molecules
             /\ \A k \in 1..Len(fragments'.graphs) :
                   \A j \in 1..Len(fragment_pool') :
                       fragment_pool'[j].globals # fragments'.graphs[k].globals]_vars
    /\ [][pc = "error" => UNCHANGED vars]_vars

\* the predictor raised in the first round, on a batch of two seeds
C14_Witness ==
    /\ pc = "error"
    /\ Len(fragments.graphs) = 2
    /\ merged = <<>>
    /\ generated_molecules = <<>>

\* the fragments of a run: pending, batched, merged and recorded
AllFragments ==
    Range(fragment_pool) \cup Range(fragments.graphs)
        \cup {merged[k].fragment : k \in 1..Len(merged)}
        \cup {merged[k].new_fragment : k \in 1..Len(merged)}
        \cup {generated_molecules[j].fragment : j \in 1..Len(generated_molecules)}

C25_OneOutcomePerValidFragment ==
    [][(pc = "loop" /\ pc' = "loop") =>
          LET b == fragments'
              kept == Len(fragment_pool) - b.pulled
              added == (Len(generated_molecules') - Len(generated_molecules))
                           + (Len(fragment_pool') - kept)
          IN /\ Len(b.graphs) < b.n_graph
             /\ Len(merged') = Len(b.graphs)
             /\ added = Len(b.graphs)
             /\ \A k \in 1..Len(merged') :
                   LET o == merged'[k]
                   IN /\ o.slot = k
                      /\ get_graph_padding_mask(b)[o.slot]
                      /\ o.fragment = b.graphs[k]
                      /\ o.pred_graph = o.slot
                      /\ o.new_fragment.globals = b.graphs[k].globals
                      /\ Cardinality(
                            {j \in (Len(generated_molecules) + 1)
                                       ..Len(generated_molecules') :
                                generated_molecules'[j].fragment.globals
                                    = o.fragment.globals})
                          + Cardinality(
                            {j \in (kept + 1)..Len(fragment_pool') :
                                fragment_pool'[j].globals = o.fragment.globals})
                          = 1]_vars

\* a round on a batch of two valid fragments and one padding graph has
\* recorded one seed and put the other back
C25_Witness ==
    /\ pc = "loop"
    /\ fragments # NoBatch
    /\ Len(fragments.graphs) = 2 /\ fragments.n_graph = 3
    /\ Len(merged) = 2
    /\ \E k \in 1..2 : Finalized(merged[k])
    /\ \E k \in 1..2 : Requeued(merged[k])

\* C26: when every initial fragment has fewer than max_num_atoms atoms, no
\* fragment on the pending queue or in the results has more than
\* max_num_atoms atoms, and no fragment on the queue has reached the cap.
C26_AtomCap ==
    (\A seed \in 1..num_seeds : n_node(init_fragments[seed]) < max_num_atoms) =>
        /\ \A k \in 1..Len(fragment_pool) :
              n_node(fragment_pool[k]) < max_num_atoms
        /\ \A j \in 1..Len(generated_molecules) :
              n_node(generated_molecules[j].fragment) <= max_num_atoms

\* C28: between rounds every seed is in exactly one place, the pending queue
\* or the results, with exactly one fragment or entry, so the length of the
\* queue and the number of results add up to num_seeds.
C28_SeedInOnePlace ==
    pc = "loop" =>
        /\ \A seed \in 1..num_seeds :
              Cardinality({k \in 1..Len(fragment_pool) :
                              fragment_pool[k].globals = seed})
                + Cardinality({j \in 1..Len(generated_molecules) :
                                  generated_molecules[j].fragment.globals = seed})
                = 1
        /\ Len(fragment_pool) + Len(generated_molecules) = num_seeds

\* C30: when the main loop exits the pending queue is empty and the drain
\* appends nothing; every entry of the results was appended by a round, from
\* an outcome of that round's merges.
C30_DrainAppendsNothing ==
    /\ []((pc = "loop" /\ ~LoopCond) => fragment_pool = <<>>)
    /\ [][pc' = "done" =>
             /\ fragment_pool = <<>>
             /\ generated_molecules' = generated_molecules]_vars
    /\ [][\A j \in (Len(generated_molecules) + 1)..Len(generated_molecules') :
             /\ pc = "loop" /\ pc' = "loop"
             /\ \E k \in 1..Len(merged') :
                   /\ generated_molecules'[j].fragment = merged'[k].new_fragment
                   /\ generated_molecules'[j].stop = merged'[k].stop]_vars

\* a run of two seeds has returned after the loop recorded both
C30_Witness ==
    /\ pc = "done"
    /\ num_seeds = 2
    /\ Len(generated_molecules) = 2

\* C27: every seed is eventually recorded and the main loop terminates, no
\* seed being left out of the predictor's batches for ever.  What a finite run
\* can show of it: a run that has returned (no predictor call and no batch
\* has raised) has recorded every seed, and a fragment taken off the pending
\* queue by a round is in the batch submitted to the predictor in that round.
C27_EverySeedRecorded ==
    /\ [](pc = "done" => RecordedSeeds = 1..num_seeds)
    /\ [][(pc = "loop" /\ pc' = "loop") =>
             \A k \in 1..fragments'.pulled :
                 \E i \in 1..Len(fragments'.graphs) :
                     fragments'.graphs[i] = fragment_pool[k]]_vars

\* --- append_predictions_to_fragment (SpecMerge)

\* the positions a merge works on: the fragment's atoms, then the candidates
CandidatePositions == [k \in 1..Len(m_out.accepted) |->
                          Extras(m_fragment, m_pred)[k].position]

PlacedBefore(k) ==
    Range(m_fragment.positions)
        \cup {CandidatePositions[j] : j \in {i \in 1..(k - 1) : m_out.accepted[i]}}

\* C6: a candidate is accepted exactly when it is at least merge_cutoff away
\* from every atom already placed (the original atoms and the candidates
\* accepted before it); the result is the original atoms followed by the
\* accepted candidates, so every added atom is at least merge_cutoff away from
\* every other atom of the result.
C6_AcceptIffFarEnough ==
    m_out # NoOut =>
        LET new == m_out.new_fragment.positions
            old == Len(m_fragment.positions)
            acc == {k \in 1..Len(m_out.accepted) : m_out.accepted[k]}
        IN /\ Len(m_out.accepted) = Cardinality(m_pred.focus_mask)
           /\ \A k \in 1..Len(m_out.accepted) :
                 m_out.accepted[k] <=>
                     \A a \in PlacedBefore(k) : Abs(CandidatePositions[k] - a) >= m_cutoff
           /\ Len(new) = old + Cardinality(acc)
           /\ SubSeq(new, 1, old) = m_fragment.positions
           /\ \A k \in acc :
                 new[old + Cardinality({j \in acc : j <= k})] = CandidatePositions[k]
           /\ \A i \in (old + 1)..Len(new) :
                 \A j \in 1..Len(new) : i # j => Abs(new[i] - new[j]) >= m_cutoff

\* a merge that accepts one candidate and discards another one which is far
\* from every original atom but too close to the accepted candidate
C6_Witness ==
    /\ m_out # NoOut
    /\ \E k \in 1..Len(m_out.accepted) :
          /\ ~m_out.accepted[k]
          /\ \A a \in Range(m_fragment.positions) :
                Abs(CandidatePositions[k] - a) >= m_cutoff
    /\ \E k \in 1..Len(m_out.accepted) :
          /\ m_out.accepted[k]
          /\ \E a \in Range(m_fragment.positions) :
                Abs(CandidatePositions[k] - a) = m_cutoff

\* C10: the stop value a merge returns is the prediction's stop flag, whatever
\* was accepted or discarded.
C10_StopIsPredictionStop ==
    m_out # NoOut => m_out.stop = m_pred.stop

\* a merge with stop set that accepts a candidate and discards another
C10_Witness ==
    /\ m_out # NoOut
    /\ m_pred.stop
    /\ \E k \in 1..Len(m_out.accepted) : m_out.accepted[k]
    /\ \E k \in 1..Len(m_out.accepted) : ~m_out.accepted[k]

\* --- generate_fragments (SpecFrag)

AtomsOf(f) == {<<f.positions[i], f.species[i]>> : i \in 1..Len(f.positions)}

\* The generator has ended after some step found no candidate.
Abandoned == fpc = "abandoned"

\* C2: a sequence that ends without a step finding an empty candidate set has
\* exactly n fragments; only the last has stop, and it has the input's atoms
\* and edges.
C2_CompleteSequence ==
    (fpc \in {"done", "raised"}) =>
        /\ Len(frags) = n
        /\ \A k \in 1..(n - 1) : ~frags[k].stop
        /\ frags[n].stop
        /\ frags[n].positions = graph.positions
        /\ frags[n].species = graph.species
        /\ frags[n].senders = graph.senders
        /\ frags[n].receivers = graph.receivers

\* C5: when a step finds no candidate the generator ends without raising, has
\* yielded fewer than n fragments, none of them with stop, and yields nothing
\* afterwards.
C5_AbandonedSequence ==
    /\ [](Abandoned => /\ Len(frags) < n
                       /\ \A k \in 1..Len(frags) : ~frags[k].stop)
    /\ [][Abandoned => (Abandoned' /\ frags' = frags)]_vars
    /\ [][(/\ fpc = "first"
            /\ ~ComRaises(graph, heavy_first)
            /\ \A first_node \in FirstNodes(graph, heavy_first) :
                  Restrict(graph, mode, nn_tolerance, max_radius,
                           FirstMask(graph, heavy_first, first_node)) = {})
             => (Abandoned' /\ frags' = frags)]_vars
    /\ [][(/\ fpc = "middle"
            /\ Restrict(graph, mode, nn_tolerance, max_radius,
                        MiddleMask(graph, heavy_first, visited_nodes)) = {})
             => (Abandoned' /\ frags' = frags)]_vars

\* a sequence abandoned at a middle step, after fragments were yielded
C5_Witness ==
    /\ Abandoned
    /\ Len(frags) >= 1

\* C2 for the runs that reach the end of the generator
C2_CompleteWhenDone ==
    fpc = "done" =>
        /\ Len(frags) = n
        /\ \A k \in 1..(n - 1) : ~frags[k].stop
        /\ frags[n].stop
        /\ frags[n].positions = graph.positions
        /\ frags[n].species = graph.species
        /\ frags[n].senders = graph.senders
        /\ frags[n].receivers = graph.receivers

\* C8: the k-th non-final fragment has k nodes: the atoms of the previous
\* fragment and exactly one new atom.
C8_OneMoreAtomPerStep ==
    \A k \in 1..Len(frags) :
        ~frags[k].stop =>
            /\ frags[k].n_node = k
            /\ Len(frags[k].positions) = k
            /\ Cardinality(AtomsOf(frags[k])) = k
            /\ k > 1 => /\ AtomsOf(frags[k - 1]) \subseteq AtomsOf(frags[k])
                        /\ Cardinality(AtomsOf(frags[k]) \ AtomsOf(frags[k - 1])) = 1

\* two non-final fragments have been yielded
C8_Witness ==
    /\ Len(frags) >= 2
    /\ ~frags[2].stop

\* C9: node 0 of every non-final fragment is the focus atom sampled for it.
C9_FocusFirst ==
    \A k \in 1..Len(frags) :
        ~frags[k].stop =>
            /\ frags[k].positions[1] = graph.positions[steps[k].focus_node]
            /\ frags[k].species[1] = graph.species[steps[k].focus_node]

\* a middle fragment whose focus is not the first visited atom
C9_Witness ==
    \E k \in 1..Len(frags) :
        /\ ~frags[k].stop
        /\ steps[k].focus_node # steps[k].visited[1]

\* the atoms visited before step k, as the recorded random choices give them:
\* the start atom, then the targets chosen by the steps before k
ChosenVisited(k) ==
    IF k = 1 THEN <<steps[1].focus_node>>
    ELSE <<steps[1].focus_node>> \o [j \in 1..(k - 1) |-> steps[j].choice.target]

\* Step k recomputed from the structure, the parameters and the random
\* choices of the steps 1..k alone: the candidate atoms of the chosen focus,
\* those of the chosen species, and the fragment.
ChosenStep(k) ==
    LET focus == steps[k].focus_node
        visited == ChosenVisited(k)
        mask == IF k = 1
                THEN Restrict(graph, mode, nn_tolerance, max_radius,
                              FirstMask(graph, heavy_first, focus))
                ELSE Restrict(graph, mode, nn_tolerance, max_radius,
                              MiddleMask(graph, heavy_first, visited))
        targets == ReceiversOf(graph, {e \in mask : graph.senders[e] = focus})
        is_same(t) == graph.species[t] = steps[k].choice.target_species
        same == SelectSeq(targets, is_same)
        order == steps[k].choice.order
    IN [targets |-> targets,
        targets_of_same_species |-> same,
        fragment |->
            _into_fragment(graph, visited, focus,
                IF k = 1 THEN FirstProbs(graph, focus, targets, n_species)
                         ELSE MiddleProbs(graph, mask, n_species),
                steps[k].choice.target_species,
                [i \in 1..Len(order) |->
                    graph.positions[same[order[i]]] - graph.positions[focus]],
                FALSE, max_targets_per_graph)]

RECURSIVE Reach(_, _)
\* the atoms reachable from the set S along the edges of g
Reach(g, S) ==
    LET nxt == S \cup {g.receivers[e] : e \in {d \in EdgeIds(g) : g.senders[d] \in S}}
    IN IF nxt = S THEN S ELSE Reach(g, nxt)

\* the bond graph is symmetric, free of self-edges and connected
WellFormed(g) ==
    /\ \A e \in EdgeIds(g) :
          /\ g.senders[e] # g.receivers[e]
          /\ \E d \in EdgeIds(g) :
                g.senders[d] = g.receivers[e] /\ g.receivers[d] = g.senders[e]
    /\ Reach(g, {1}) = 1..Len(g.positions)

C19_InducedSubgraph ==
    \A k \in 1..Len(steps) :
        LET f == frags[k]
            nodes == _move_first(steps[k].visited, steps[k].focus_node)
            m == Len(nodes)
            has_edge(a, b) ==
                \E e \in EdgeIds(graph) :
                    graph.senders[e] = a /\ graph.receivers[e] = b
        IN /\ f.n_node = m
           /\ Len(f.positions) = m /\ Len(f.species) = m
           /\ Len(f.focus_and_target_species_probs.counts) = m
           /\ f.n_edge = Len(f.senders)
           /\ Len(f.receivers) = Len(f.senders)
           /\ \A e \in 1..Len(f.senders) :
                 f.senders[e] \in 1..m /\ f.receivers[e] \in 1..m
           /\ \A i, j \in 1..m :
                 Cardinality({e \in 1..Len(f.senders) :
                                 f.senders[e] = i /\ f.receivers[e] = j})
                     = IF has_edge(nodes[i], nodes[j]) THEN 1 ELSE 0
           /\ \A i \in 1..m :
                 /\ f.positions[i] = graph.positions[nodes[i]]
                 /\ f.species[i] = graph.species[nodes[i]]
                 /\ f.focus_and_target_species_probs.counts[i]
                        = steps[k].target_species_probability.counts[nodes[i]]

\* a fragment of two atoms, rotated so that the second visited atom is first,
\* that keeps the bond between them and leaves out edges of the structure
C19_Witness ==
    \E k \in 1..Len(steps) :
        /\ Len(steps[k].visited) = 2
        /\ steps[k].focus_node = steps[k].visited[2]
        /\ frags[k].n_edge = 2
        /\ Len(graph.senders) > 2

\* C20: with heavy_first, in a sequence that runs to its end, the start atom
\* is not a hydrogen when the structure has another atom kind, and no target
\* is a hydrogen while a non-hydrogen atom is unvisited.
C20_HydrogenLast ==
    (heavy_first /\ fpc = "done") =>
        \A k \in 1..Len(steps) :
            LET unvisited == (1..n) \ Range(steps[k].visited)
            IN /\ (k = 1 /\ \E i \in 1..n : graph.species[i] # 0)
                     => graph.species[steps[1].focus_node] # 0
               /\ (\E i \in unvisited : graph.species[i] # 0)
                     => graph.species[steps[k].choice.target] # 0

\* the edges from a visited to an unvisited atom
VisitedToUnvisited(v) ==
    {e \in EdgeIds(graph) :
        graph.senders[e] \in Range(v) /\ graph.receivers[e] \notin Range(v)}

\* the edges a middle step searches: with heavy_first, while a non-hydrogen
\* atom is unvisited, only the edges between two non-hydrogen atoms
CandidateEdges(v) ==
    IF heavy_first /\ \E i \in (1..n) \ Range(v) : graph.species[i] > 0
    THEN {e \in VisitedToUnvisited(v) :
             graph.species[graph.senders[e]] > 0
                 /\ graph.species[graph.receivers[e]] > 0}
    ELSE VisitedToUnvisited(v)

\* the edge from the focus to the target of step k passes the restriction of
\* the mode, the minimum being taken over the edge set E
PassesMode(k, E) ==
    \E e \in E :
        /\ graph.senders[e] = steps[k].focus_node
        /\ graph.receivers[e] = steps[k].choice.target
        /\ IF mode = "nn"
           THEN dist(graph, e) < Min({dist(graph, d) : d \in E}) + nn_tolerance
           ELSE dist(graph, e) < max_radius

Distinct(s) == \A i, j \in 1..Len(s) : i # j => s[i] # s[j]

\* C21 as claimed: in every middle step the focus is visited, the target is
\* unvisited and the edge from focus to target passes the restriction of the
\* mode, in mode nn with the minimum taken over all edges from a visited to an
\* unvisited atom; the visited list has no atom twice and holds every atom
\* after n-1 steps.
C21_MiddleStepEdge ==
    /\ \A k \in 2..Len(steps) :
          /\ steps[k].focus_node \in Range(steps[k].visited)
          /\ steps[k].choice.target \notin Range(steps[k].visited)
          /\ PassesMode(k, VisitedToUnvisited(steps[k].visited))
    /\ Distinct(visited_nodes)
    /\ Len(steps) = n - 1 => Range(visited_nodes) = 1..n

\* C21, amended: as claimed, with the minimum of mode nn taken over the
\* candidate edges of the step, which under heavy_first, while a non-hydrogen
\* atom is unvisited, are only the visited-to-unvisited edges between two
\* non-hydrogen atoms.
C21_MiddleStepCandidateEdge ==
    /\ \A k \in 2..Len(steps) :
          /\ steps[k].focus_node \in Range(steps[k].visited)
          /\ steps[k].choice.target \notin Range(steps[k].visited)
          /\ PassesMode(k, CandidateEdges(steps[k].visited))
    /\ Distinct(visited_nodes)
    /\ Len(steps) = n - 1 => Range(visited_nodes) = 1..n

\* a middle step under heavy_first in mode nn whose target lies farther away
\* than an edge between a visited and an unvisited atom that has a hydrogen
\* at one end; every atom has been visited since
C21_Witness ==
    /\ heavy_first /\ mode = "nn"
    /\ Len(steps) = n - 1
    /\ \E k \in 2..Len(steps) :
          \E e \in VisitedToUnvisited(steps[k].visited) :
              /\ e \notin CandidateEdges(steps[k].visited)
              /\ \A d \in CandidateEdges(steps[k].visited) :
                    dist(graph, e) < dist(graph, d)

\* the first fragment has the start atom as its only node and no edge
OnlyStartAtom(f) ==
    /\ f.n_node = 1 /\ f.n_edge = 0
    /\ f.positions = <<graph.positions[steps[1].focus_node]>>
    /\ f.species = <<graph.species[steps[1].focus_node]>>
    /\ f.senders = <<>> /\ f.receivers = <<>>
    /\ Len(f.focus_and_target_species_probs.counts) = 1

\* C22 as claimed: the first fragment holds only the start atom, and its
\* distribution over the species is 1 at the sampled target species and 0 at
\* every other species.
C22_FirstOneHot ==
    Len(frags) >= 1 =>
        LET f == frags[1]
            p == f.focus_and_target_species_probs
        IN /\ OnlyStartAtom(f)
           /\ \A sp \in 0..(n_species - 1) :
                 p.counts[1][sp + 1] =
                     IF sp = steps[1].choice.target_species THEN p.total ELSE 0

\* C22, amended: the first fragment holds only the start atom, and its
\* distribution gives every species the share of the start atom's candidate
\* targets that have this species; it is positive at the sampled target
\* species, sums to 1, and is one-hot exactly when all candidates have the
\* same species.
C22_FirstSpeciesShare ==
    Len(frags) >= 1 =>
        LET f == frags[1]
            p == f.focus_and_target_species_probs
            targets == steps[1].targets
            kinds == {graph.species[targets[k]] : k \in 1..Len(targets)}
        IN /\ OnlyStartAtom(f)
           /\ p.total = Len(targets) /\ p.total > 0
           /\ \A sp \in 0..(n_species - 1) :
                 p.counts[1][sp + 1] =
                     Cardinality({k \in 1..Len(targets) :
                                     graph.species[targets[k]] = sp})
           /\ p.counts[1][steps[1].choice.target_species + 1] > 0
           /\ SumSeq(p.counts[1]) = p.total
           /\ (p.counts[1][steps[1].choice.target_species + 1] = p.total)
                  <=> Cardinality(kinds) = 1

\* the start atom, which is not atom 0, has candidates of two species
C22_Witness ==
    /\ Len(frags) >= 1
    /\ steps[1].focus_node # 1
    /\ Cardinality({graph.species[steps[1].targets[k]] :
                        k \in 1..Len(steps[1].targets)}) = 2

\* C23: the final fragment has every supervision field zeroed: the species
\* distribution is zero in every row, the target species is 0, every target
\* position is the zero vector and every slot of the validity mask is false,
\* whatever max_targets_per_graph is.
C23_LastAllZero ==
    fpc = "done" =>
        LET f == frags[Len(frags)]
        IN /\ f.stop
           /\ \A i \in 1..Len(f.focus_and_target_species_probs.counts) :
                 \A sp \in 1..n_species :
                     f.focus_and_target_species_probs.counts[i][sp] = 0
           /\ f.target_species = 0
           /\ Len(f.target_positions) = max_targets_per_graph
           /\ Len(f.target_position_mask) = max_targets_per_graph
           /\ \A k \in 1..max_targets_per_graph :
                 /\ f.target_positions[k] = 0
                 /\ f.target_position_mask[k] = FALSE

\* the candidates of step k that have the sampled target species
SameSpeciesCandidates(k) ==
    {c \in Range(steps[k].targets) :
        graph.species[c] = steps[k].choice.target_species}

\* the number of valid target-position slots of a fragment
ValidSlots(f) ==
    Cardinality({j \in 1..Len(f.target_position_mask) : f.target_position_mask[j]})

\* C24: in every non-final fragment the number of valid target-position
\* slots is the smaller of max_targets_per_graph and the number of candidates
\* of the sampled species next to the focus; the valid slots come first, each
\* holds position(c) - position(focus) for a candidate c of its own, and every
\* other slot holds the zero vector with mask false.
C24_TargetSlots ==
    \A k \in 1..Len(steps) :
        LET f == frags[k]
            cands == SameSpeciesCandidates(k)
            m == Cardinality(cands)
            valid == IF m < max_targets_per_graph THEN m ELSE max_targets_per_graph
            focus == graph.positions[steps[k].focus_node]
        IN /\ Len(f.target_positions) = max_targets_per_graph
           /\ Len(f.target_position_mask) = max_targets_per_graph
           /\ ValidSlots(f) = valid
           /\ \A j \in 1..max_targets_per_graph :
                 f.target_position_mask[j] <=> j <= valid
           /\ \E c \in [1..valid -> cands] :
                 /\ \A i, j \in 1..valid : i # j => c[i] # c[j]
                 /\ \A j \in 1..valid :
                       f.target_positions[j] = graph.positions[c[j]] - focus
           /\ \A j \in (valid + 1)..max_targets_per_graph :
                 f.target_positions[j] = 0

\* with two slots, one fragment has both slots valid and a later one has one
\* valid slot and one padded slot
C24_Witness ==
    /\ max_targets_per_graph = 2
    /\ Len(steps) >= 2
    /\ ValidSlots(frags[1]) = 2
    /\ ValidSlots(frags[2]) = 1

\* C29: in every non-final fragment the position of the atom added to the
\* visited list by the step, relative to the focus, is one of the fragment's
\* valid target positions, whatever max_targets_per_graph and the number of
\* candidates of the sampled species are.
C29_AddedAtomRecorded ==
    \A k \in 1..Len(steps) :
        LET f == frags[k]
            added == IF k < Len(visited_nodes) THEN visited_nodes[k + 1]
                     ELSE steps[k].choice.target
        IN \E j \in 1..Len(f.target_positions) :
              /\ f.target_position_mask[j]
              /\ f.target_positions[j] =
                     graph.positions[added] - graph.positions[steps[k].focus_node]

\* --- generate_all_fragments (SpecGen)

\* C18: the records of a molecule are yielded only if its fragment list is not
\* empty and ends with a stop fragment, and then all of them in order; for an
\* abandoned decomposition nothing is yielded, nothing is raised, and the
\* loop goes on to the next molecule.
C18_AllOrNothing ==
    /\ [][(gpc = "fragments" /\ gpc' = "next") =>
             /\ yielded' # <<>> =>
                   /\ frags # <<>>
                   /\ frags[Len(frags)].stop
                   /\ Len(yielded') = Len(frags)
                   /\ \A k \in 1..Len(frags) :
                         /\ yielded'[k].positions = frags[k].positions
                         /\ yielded'[k].species = frags[k].species
                         /\ yielded'[k].stop = frags[k].stop
             /\ Abandoned => yielded' = <<>>]_vars
    /\ [][(gpc = "fragments" /\ Abandoned) => gpc' = "next"]_vars
    /\ [](gpc = "raised" => ~Abandoned)
    /\ [](gpc = "fragments" => Len(yielded) = 0)

\* a molecule was abandoned after a fragment had been produced and nothing of
\* it was yielded; the next molecule has been decomposed to the end
C18_Witness ==
    /\ gpc = "fragments"
    /\ previous = "abandoned_partial"
    /\ fpc = "done"
    /\ Len(frags) = 3

====
